---- MODULE Spec2Model ----
(***************************************************************************)
(* Model of the IEEE-488.2 block reader of ScopeControlGui/scpi.py         *)
(* (KeysightScope._read_ieee_block and KeysightScope._drain_input) over a   *)
(* byte-oriented VISA session.  The session is the environment: a read of  *)
(* k bytes hands back between one and k of the bytes that have arrived, or *)
(* nothing (or VI_ERROR_TMO) when nothing has arrived, or fails with a     *)
(* transport error.                                                        *)
(***************************************************************************)
EXTENDS Integers, Sequences, FiniteSets, TLC

VARIABLES
    pc,                 \* position inside _read_ieee_block / the follow-up query
    resp,               \* what the instrument answers to cmd: [hdr, body, trail]
    stream,             \* bytes that have arrived and are not read yet
    read_termination,   \* inst.read_termination
    old_rt,             \* local old_rt of _read_ieee_block
    timeout,            \* inst.timeout
    old_to,             \* local old_to of _drain_input
    b,                  \* local b: the marker byte read
    ndigits,            \* local ndigits
    total_len,          \* local total_len
    payload,            \* local payload
    remaining,          \* local remaining
    status,             \* how the call ended
    ret,                \* the bytes the call returned
    faulted,            \* a session operation failed with a transport error
    hdrShort,           \* a header read came back short: "no", "frag", "starved"
    nreads,             \* payload reads issued so far
    nwrites,            \* commands written by the call
    lastLen,            \* length of the last chunk the post-block drain read
    qreply,             \* the line the follow-up query read
    predrained,         \* bytes the pre-drain took from the input
    steps               \* the session operations of the call, in order, repeats merged

(* The screenshot export *)
VARIABLES
    file                \* the bytes export_screenshot_png wrote to the file

(* The threads of the GUI that use the session *)
VARIABLES
    tpc,                \* per thread: "off", "idle", "waiting" (query written, answer not read), "done"
    wstep,              \* per worker: operations of export_all_channels_csv completed
    lastWriter          \* the thread that wrote the latest command to the session

(* The waveform readers *)
VARIABLES
    wpath,              \* which reader runs: "rwb", "csv", "ascii"
    wpc,                \* position inside the reader
    wstatus,            \* how the reader ended
    ch,                 \* loop variable ch of export_all_channels_csv
    cur_pre,            \* local pre: the preamble fields of the transfer
    cur_raw,            \* local payload: the raw sample bytes of the transfer
    requested,          \* sample data was requested after cur_pre was read
    time_axis,          \* local time_axis
    axis_ch,            \* the channel that built time_axis, 0 while it is None
    data_cols,          \* local data_cols, keyed by channel number
    t_vals,             \* local t_vals of _read_waveform_binary
    y_vals,             \* local y_vals
    shortSeen,          \* channels whose preamble had fewer than 10 fields
    tb,                 \* the instrument's timebase mode: "MAIN" or "WIND"
    tb0,                \* the timebase mode when the reader started
    tbcmds,             \* the :TIMebase:MODE commands handed to inst.write, in order
    tbFault,            \* a timebase query or write failed
    restore_zoom,       \* local restore_zoom; prev_tmode.startswith("WIND") in the export
    rows                \* the data rows the export wrote to the file

(* The measurement rows of the GUI *)
VARIABLES
    meas_active,        \* App.meas_active, per row
    installed,          \* rows whose measurement the instrument holds
    val_var,            \* per row, what its value label shows: "dash" or "value"
    last_msg            \* the status line or error dialog of the latest handler

blockVars == <<pc, resp, stream, read_termination, old_rt, timeout, old_to, b,
               ndigits, total_len, payload, remaining, status, ret, faulted,
               hdrShort, nreads, nwrites, lastLen, qreply, predrained, steps>>
shotVars == <<file>>
guiVars == <<tpc, wstep, lastWriter>>
tbVars == <<tb, tb0, tbcmds, tbFault, restore_zoom>>
waveVars == <<wpath, wpc, wstatus, ch, cur_pre, cur_raw, requested, time_axis,
              axis_ch, data_cols, t_vals, y_vals, shortSeen, tbVars, rows>>
measVars == <<meas_active, installed, val_var, last_msg>>
auxVars == <<shotVars, guiVars, waveVars, measVars>>

vars == <<pc, resp, stream, read_termination, old_rt, timeout, old_to, b,
          ndigits, total_len, payload, remaining, status, ret, faulted,
          hdrShort, nreads, nwrites, lastLen, qreply, predrained, steps,
          auxVars>>

----------------------------------------------------------------------------
(* Bounds of the model *)

MaxLen == 4         \* longest payload
MaxDigits == 2      \* longest length field

(* Byte codes *)
HASH == 35
LF == 10
CR == 13
ZERO == 48
NINE == 57
LETTER == NINE + 8     \* 'A': neither marker, digit nor terminator

(* Session settings made by connect, and the drain timeouts *)
ConnectTimeout == 10000
PreDrainMs == 50
PostDrainMs == 100
MinDrainMs == 1

TermLF == "LF"
TermNone == "None"
ConnectRt == TermLF

----------------------------------------------------------------------------
(* Sequences *)

Take(s, j) == SubSeq(s, 1, j)
Drop(s, j) == SubSeq(s, j + 1, Len(s))
Min(x, y) == IF x <= y THEN x ELSE y
Max(x, y) == IF x >= y THEN x ELSE y

(* bytes.isdigit(): non-empty and every byte an ASCII digit *)
IsDigits(s) == Len(s) > 0 /\ \A i \in 1..Len(s) : s[i] >= ZERO /\ s[i] <= NINE

(* int(bytes): the decimal value of a digit string *)
RECURSIVE ToInt(_)
ToInt(s) == IF Len(s) = 0 THEN 0
            ELSE 10 * ToInt(Take(s, Len(s) - 1)) + (s[Len(s)] - ZERO)

----------------------------------------------------------------------------
(* The instrument's answer to the block query.  hdr is the header as sent,  *)
(* body the bytes sent after it, trail what follows the body (a terminator, *)
(* possibly followed by bytes of an unrelated later reply).                 *)

Digit(d) == ZERO + d

RECURSIVE LenField(_, _)
LenField(n, L) == IF n = 0 THEN <<>>
                  ELSE LenField(n - 1, L \div 10) \o <<Digit(L % 10)>>

Header(n, L) == <<HASH, Digit(n)>> \o LenField(n, L)

PayloadBytes == {LF, LETTER}
Bodies(L) == [1..L -> PayloadBytes]

Terminators == {<<LF>>, <<CR, LF>>}
Unrelated == <<LETTER, LETTER, LETTER, LF, LETTER, LF>>
Trailers == {<<>>} \cup Terminators \cup {<<LF>> \o Unrelated}

(* Complete blocks: the declared length of body bytes, then a trailer *)
CompleteBlocks ==
    UNION { { [hdr |-> Header(n, L), body |-> p, trail |-> t] :
                p \in Bodies(L), t \in Trailers } :
            n \in 1..MaxDigits, L \in 0..MaxLen }

(* Blocks whose payload stops early: fewer body bytes than declared *)
ShortBlocks ==
    UNION { { [hdr |-> Header(n, L), body |-> p, trail |-> <<>>] :
                p \in UNION { Bodies(k) : k \in 0..(L - 1) } } :
            n \in 1..MaxDigits, L \in 1..MaxLen }

(* Headers that stop early, and headers that are not #<digit><digits> *)
CutHeaders ==
    { <<HASH>>, <<HASH, Digit(2)>>, <<HASH, Digit(2), Digit(0)>> }
BadHeaders ==
    { <<HASH, LETTER, Digit(5), Digit(0), Digit(0)>>,
      <<HASH, Digit(1), LETTER>>,
      <<HASH, Digit(2), Digit(0), LETTER>>,
      <<HASH, Digit(0)>> }
BrokenBlocks ==
    { [hdr |-> h, body |-> <<>>, trail |-> <<>>] : h \in CutHeaders }
  \cup
    { [hdr |-> h, body |-> <<>>, trail |-> t] :
        h \in BadHeaders, t \in {<<>>, <<LF>>} }

(* Answers that are no block at all: the first byte is not the marker *)
NonBlocks ==
    { [hdr |-> <<>>, body |-> p, trail |-> <<>>] :
        p \in { <<>>, <<LETTER>>, <<LF>>, <<LETTER, LF>>, <<Digit(1), LETTER, LF>> } }

Responses == CompleteBlocks \cup ShortBlocks \cup BrokenBlocks \cup NonBlocks

Bytes(r) == r.hdr \o r.body \o r.trail

(* Bytes a prior exchange may have left unread *)
StaleInputs == { <<>>, <<LETTER, LF>> }

(* The reply to the follow-up query *)
QueryReply == <<LETTER + 1, LF>>

----------------------------------------------------------------------------
(* The session.  An outcome is [kind, n]: "data" with the number of bytes   *)
(* handed back, "tmo" for VI_ERROR_TMO, "err" for any other failure.        *)

(* Index of the first LF of s, or Len(s) when there is none *)
FirstLF(s) ==
    IF \E i \in 1..Len(s) : s[i] = LF
    THEN CHOOSE i \in 1..Len(s) : s[i] = LF /\ \A j \in 1..(i - 1) : s[j] # LF
    ELSE Len(s)

(* Most bytes one raw read hands back: up to the terminator when it is on *)
RawMax(s, rt) == IF rt = TermLF THEN FirstLF(s) ELSE Len(s)

(* inst.read_bytes(k, break_on_termchar=False) *)
ReadBytesOutcomes(k) ==
    { [kind |-> "data", n |-> j] :
        j \in (IF k = 0 \/ stream = <<>> THEN {0} ELSE 1..Min(k, Len(stream))) }
    \cup (IF k > 0 /\ stream = <<>> THEN { [kind |-> "tmo", n |-> 0] } ELSE {})
    \cup { [kind |-> "err", n |-> 0] }

(* inst.read_raw() *)
ReadRawOutcomes ==
    { [kind |-> "data", n |-> j] :
        j \in (IF stream = <<>> THEN {0} ELSE 1..RawMax(stream, read_termination)) }
    \cup (IF stream = <<>> THEN { [kind |-> "tmo", n |-> 0] } ELSE {})
    \cup { [kind |-> "err", n |-> 0] }

(* inst.query(cmd): write, then read one line *)
QueryLine(s, rt) == Take(s, RawMax(s, rt))

----------------------------------------------------------------------------
(* Decisions of _drain_input and _read_ieee_block.  A definition named as a   *)
(* variant of the one that follows it is that decision made wrongly; the     *)
(* properties below are checked to tell the two apart.                       *)

DrainTimeout(ms) == Max(MinDrainMs, ms)
DrainStopsAtOnce(chunk) == TRUE
DrainStops(chunk) == chunk = <<>>
DrainRestoreSkipped == timeout
DrainRestore == old_to

BinaryRtKept == read_termination
BinaryRt == TermNone
FinallyRtSkipped == read_termination
FinallyRt == old_rt

IsMarker(chunk) == ~(chunk = <<>> \/ chunk # <<HASH>>)
NdOk(nd) == ~(Len(nd) # 1 \/ ~IsDigits(nd))
LenOkCountOnly(length_bytes, nd) == Len(length_bytes) = nd
LenOk(length_bytes, nd) == ~(Len(length_bytes) # nd \/ ~IsDigits(length_bytes))
HeaderError == "FramingError"
EmptyChunkNever(chunk) == FALSE
EmptyChunk(chunk) == chunk = <<>>
EmptyChunkAsFraming == "FramingError"
EmptyChunkError == "Timeout"
ExtendOverwrite(p, chunk) == chunk
Extend(p, chunk) == p \o chunk
NextRemaining(rem, chunk) == rem - Len(chunk)
LoopContinues(rem) == rem > 0

ReadsCap == 2 * MaxLen + 2
Bump(n) == IF n < ReadsCap THEN n + 1 ELSE n

(* The record of session operations: a tag is added unless it repeats the last *)
Log(s, tag) == IF Len(s) > 0 /\ s[Len(s)] = tag THEN s ELSE Append(s, tag)
TermTag(rt) == IF rt = TermNone THEN "term_off" ELSE "term_on"

----------------------------------------------------------------------------
(* The parts of the program that are at rest while another part runs *)
NoResponse == [hdr |-> <<>>, body |-> <<>>, trail |-> <<>>]

(* The locals of _read_ieee_block and the session settings after connect() *)
BlockRest ==
    /\ read_termination = ConnectRt
    /\ old_rt = ConnectRt
    /\ timeout = ConnectTimeout
    /\ old_to = ConnectTimeout
    /\ b = <<>>
    /\ ndigits = 0
    /\ total_len = 0
    /\ payload = <<>>
    /\ remaining = 0
    /\ status = "none"
    /\ ret = <<>>
    /\ faulted = FALSE
    /\ hdrShort = "no"
    /\ nreads = 0
    /\ nwrites = 0
    /\ lastLen = 0
    /\ qreply = <<>>
    /\ predrained = 0
    /\ steps = <<>>

BlockIdle == pc = "idle" /\ resp = NoResponse /\ stream = <<>> /\ BlockRest

ShotIdle == file = <<>>

(* Thread 0 is the Tk main loop; each CSV export click starts one more worker *)
UiThread == 0
MaxWorkers == 2
Workers == 1..MaxWorkers
Threads == {UiThread} \cup Workers

GuiIdle ==
    /\ tpc = [t \in Threads |-> IF t = UiThread THEN "idle" ELSE "off"]
    /\ wstep = [w \in Workers |-> 0]
    /\ lastWriter = UiThread

NoCols == [c \in {} |-> <<>>]

WaveIdle ==
    /\ wpath = "none"
    /\ wpc = "idle"
    /\ wstatus = "none"
    /\ ch = 0
    /\ cur_pre = <<>>
    /\ cur_raw = <<>>
    /\ requested = FALSE
    /\ time_axis = <<>>
    /\ axis_ch = 0
    /\ data_cols = NoCols
    /\ t_vals = <<>>
    /\ y_vals = <<>>
    /\ shortSeen = {}
    /\ tb = "MAIN"
    /\ tb0 = "MAIN"
    /\ tbcmds = <<>>
    /\ tbFault = FALSE
    /\ restore_zoom = FALSE
    /\ rows = <<>>

(* The four measurement rows, numbered as in range(4) *)
NumRows == 4
Rows == 0..(NumRows - 1)

MeasIdle ==
    /\ meas_active = [i \in Rows |-> FALSE]
    /\ installed = {}
    /\ val_var = [i \in Rows |-> "dash"]
    /\ last_msg = ""

Init ==
    /\ pc = "start"
    /\ resp \in Responses
    /\ stream \in StaleInputs
    /\ read_termination = ConnectRt
    /\ old_rt = ConnectRt
    /\ timeout = ConnectTimeout
    /\ old_to = ConnectTimeout
    /\ b = <<>>
    /\ ndigits = 0
    /\ total_len = 0
    /\ payload = <<>>
    /\ remaining = 0
    /\ status = "none"
    /\ ret = <<>>
    /\ faulted = FALSE
    /\ hdrShort = "no"
    /\ nreads = 0
    /\ nwrites = 0
    /\ lastLen = 0
    /\ qreply = <<>>
    /\ predrained = 0
    /\ steps = <<>>
    /\ ShotIdle /\ GuiIdle /\ WaveIdle /\ MeasIdle

(* Variant: the failed exchange is started again instead of ending the call *)
RaiseAndRetry(kind) ==
    /\ status' = kind
    /\ ret' = <<>>
    /\ read_termination' = old_rt
    /\ pc' = "write"

(* An exception leaves the try block: the finally clause runs, the call ends *)
Raise(kind) ==
    /\ status' = kind
    /\ ret' = <<>>
    /\ read_termination' = FinallyRt
    /\ pc' = "done"

(* The try block completes: the finally clause runs, the post-block drain follows *)
Finish ==
    /\ read_termination' = FinallyRt
    /\ pc' = "postenter"
    /\ UNCHANGED <<status, ret>>

(* self._drain_input(50): entry *)
PreDrainEnter ==
    /\ pc = "start"
    /\ old_to' = timeout
    /\ timeout' = DrainTimeout(PreDrainMs)
    /\ pc' = "predrain"
    /\ UNCHANGED <<resp, stream, read_termination, old_rt, b, ndigits, total_len,
                   payload, remaining, status, ret, faulted, hdrShort, nreads,
                   nwrites, lastLen, qreply,
                   predrained>>
    /\ UNCHANGED steps
    /\ UNCHANGED auxVars

(* self._drain_input(50): one pass of the loop; leaving it restores the timeout *)
PreDrainRead ==
    /\ pc = "predrain"
    /\ \E o \in ReadRawOutcomes :
         LET chunk == Take(stream, o.n) IN
         \/ /\ o.kind = "data" /\ ~DrainStops(chunk)
            /\ stream' = Drop(stream, o.n)
            /\ predrained' = predrained + o.n
            /\ UNCHANGED <<pc, timeout, faulted>>
         \/ /\ o.kind # "data" \/ DrainStops(chunk)
            /\ stream' = Drop(stream, o.n)
            /\ timeout' = DrainRestore
            /\ faulted' = (faulted \/ o.kind = "err")
            /\ pc' = "setterm"
            /\ predrained' = predrained + o.n
    /\ UNCHANGED <<resp, read_termination, old_rt, old_to, b, ndigits, total_len,
                   payload, remaining, status, ret, hdrShort, nreads, nwrites,
                   lastLen, qreply>>
    /\ steps' = Log(steps, "predrain")
    /\ UNCHANGED auxVars

(* old_rt = inst.read_termination; inst.read_termination = None *)
SetBinary ==
    /\ pc = "setterm"
    /\ old_rt' = read_termination
    /\ read_termination' = BinaryRt
    /\ pc' = "write"
    /\ UNCHANGED <<resp, stream, timeout, old_to, b, ndigits, total_len, payload,
                   remaining, status, ret, faulted, hdrShort, nreads, nwrites,
                   lastLen, qreply,
                   predrained>>
    /\ steps' = Log(steps, TermTag(read_termination'))
    /\ UNCHANGED auxVars

(* inst.write(cmd): the instrument queues its answer, or the write fails *)
WriteCmd ==
    /\ pc = "write"
    /\ \/ /\ stream' = stream \o Bytes(resp)
          /\ nwrites' = nwrites + 1
          /\ pc' = "marker"
          /\ UNCHANGED <<read_termination, status, ret, faulted>>
       \/ /\ Raise("IOError")
          /\ faulted' = TRUE
          /\ UNCHANGED <<stream, nwrites>>
    /\ UNCHANGED <<resp, old_rt, timeout, old_to, b, ndigits, total_len, payload,
                   remaining, hdrShort, nreads, lastLen, qreply,
                   predrained>>
    /\ steps' = IF pc' \in {"done", "postenter"}
                THEN Log(Log(steps, "write"), TermTag(read_termination'))
                ELSE Log(steps, "write")
    /\ UNCHANGED auxVars

(* b = inst.read_bytes(1); test for the block marker *)
ReadMarker ==
    /\ pc = "marker"
    /\ \E o \in ReadBytesOutcomes(1) :
         LET chunk == Take(stream, o.n) IN
         \/ /\ o.kind = "data"
            /\ b' = chunk
            /\ stream' = Drop(stream, o.n)
            /\ pc' = IF IsMarker(chunk) THEN "nd" ELSE "fallback"
            /\ UNCHANGED <<read_termination, status, ret, faulted>>
         \/ /\ o.kind # "data"
            /\ Raise(IF o.kind = "tmo" THEN "Timeout" ELSE "IOError")
            /\ faulted' = (faulted \/ o.kind = "err")
            /\ UNCHANGED <<b, stream>>
    /\ UNCHANGED <<resp, old_rt, timeout, old_to, ndigits, total_len, payload,
                   remaining, hdrShort, nreads, nwrites, lastLen, qreply,
                   predrained>>
    /\ steps' = IF pc' \in {"done", "postenter"}
                THEN Log(Log(steps, "marker"), TermTag(read_termination'))
                ELSE Log(steps, "marker")
    /\ UNCHANGED auxVars

(* rest = b + inst.read_raw(); return rest *)
ReadFallback ==
    /\ pc = "fallback"
    /\ \E o \in ReadRawOutcomes :
         \/ /\ o.kind = "data"
            /\ ret' = b \o Take(stream, o.n)
            /\ stream' = Drop(stream, o.n)
            /\ status' = "fallback"
            /\ read_termination' = FinallyRt
            /\ pc' = "done"
            /\ UNCHANGED faulted
         \/ /\ o.kind # "data"
            /\ Raise(IF o.kind = "tmo" THEN "Timeout" ELSE "IOError")
            /\ faulted' = (faulted \/ o.kind = "err")
            /\ UNCHANGED stream
    /\ UNCHANGED <<resp, old_rt, timeout, old_to, b, ndigits, total_len, payload,
                   remaining, hdrShort, nreads, nwrites, lastLen, qreply,
                   predrained>>
    /\ steps' = IF pc' \in {"done", "postenter"}
                THEN Log(Log(steps, "fallback"), TermTag(read_termination'))
                ELSE Log(steps, "fallback")
    /\ UNCHANGED auxVars

(* How a header read that asked for k bytes and got n of them came back *)
Shortfall(k, n) ==
    IF n >= k THEN hdrShort
    ELSE IF n = Len(stream) THEN "starved" ELSE "frag"

(* nd = inst.read_bytes(1); ndigits = int(nd) *)
ReadNd ==
    /\ pc = "nd"
    /\ \E o \in ReadBytesOutcomes(1) :
         LET chunk == Take(stream, o.n) IN
         \/ /\ o.kind = "data" /\ NdOk(chunk)
            /\ ndigits' = ToInt(chunk)
            /\ stream' = Drop(stream, o.n)
            /\ pc' = "len"
            /\ UNCHANGED <<read_termination, status, ret, faulted, hdrShort>>
         \/ /\ o.kind = "data" /\ ~NdOk(chunk)
            /\ stream' = Drop(stream, o.n)
            /\ hdrShort' = Shortfall(1, o.n)
            /\ Raise(HeaderError)
            /\ UNCHANGED <<ndigits, faulted>>
         \/ /\ o.kind # "data"
            /\ Raise(IF o.kind = "tmo" THEN "Timeout" ELSE "IOError")
            /\ faulted' = (faulted \/ o.kind = "err")
            /\ UNCHANGED <<ndigits, stream, hdrShort>>
    /\ UNCHANGED <<resp, old_rt, timeout, old_to, b, total_len, payload,
                   remaining, nreads, nwrites, lastLen, qreply,
                   predrained>>
    /\ steps' = IF pc' \in {"done", "postenter"}
                THEN Log(Log(steps, "count"), TermTag(read_termination'))
                ELSE Log(steps, "count")
    /\ UNCHANGED auxVars

(* length_bytes = inst.read_bytes(ndigits); total_len = int(length_bytes);   *)
(* payload = bytearray(); remaining = total_len; first test of the loop      *)
ReadLen ==
    /\ pc = "len"
    /\ \E o \in ReadBytesOutcomes(ndigits) :
         LET chunk == Take(stream, o.n) IN
         \/ /\ o.kind = "data" /\ LenOk(chunk, ndigits)
            /\ total_len' = ToInt(chunk)
            /\ payload' = <<>>
            /\ remaining' = ToInt(chunk)
            /\ stream' = Drop(stream, o.n)
            /\ IF LoopContinues(ToInt(chunk))
               THEN pc' = "payload" /\ UNCHANGED <<read_termination, status, ret>>
               ELSE Finish
            /\ UNCHANGED <<faulted, hdrShort>>
         \/ /\ o.kind = "data" /\ ~LenOk(chunk, ndigits)
            /\ stream' = Drop(stream, o.n)
            /\ hdrShort' = Shortfall(ndigits, o.n)
            /\ Raise(HeaderError)
            /\ UNCHANGED <<total_len, payload, remaining, faulted>>
         \/ /\ o.kind # "data"
            /\ Raise(IF o.kind = "tmo" THEN "Timeout" ELSE "IOError")
            /\ faulted' = (faulted \/ o.kind = "err")
            /\ UNCHANGED <<total_len, payload, remaining, stream, hdrShort>>
    /\ UNCHANGED <<resp, old_rt, timeout, old_to, b, ndigits, nreads, nwrites,
                   lastLen, qreply,
                   predrained>>
    /\ steps' = IF pc' \in {"done", "postenter"}
                THEN Log(Log(steps, "length"), TermTag(read_termination'))
                ELSE Log(steps, "length")
    /\ UNCHANGED auxVars

(* One pass of the payload loop: chunk = inst.read_bytes(remaining) *)
ReadPayload ==
    /\ pc = "payload"
    /\ nreads' = Bump(nreads)
    /\ \E o \in ReadBytesOutcomes(remaining) :
         LET chunk == Take(stream, o.n) IN
         \/ /\ o.kind = "data" /\ ~EmptyChunk(chunk)
            /\ payload' = Extend(payload, chunk)
            /\ remaining' = NextRemaining(remaining, chunk)
            /\ stream' = Drop(stream, o.n)
            /\ IF LoopContinues(NextRemaining(remaining, chunk))
               THEN UNCHANGED <<pc, read_termination, status, ret>>
               ELSE Finish
            /\ UNCHANGED faulted
         \/ /\ o.kind = "data" /\ EmptyChunk(chunk)
            /\ Raise(EmptyChunkError)
            /\ UNCHANGED <<payload, remaining, stream, faulted>>
         \/ /\ o.kind # "data"
            /\ Raise(IF o.kind = "tmo" THEN "Timeout" ELSE "IOError")
            /\ faulted' = (faulted \/ o.kind = "err")
            /\ UNCHANGED <<payload, remaining, stream>>
    /\ UNCHANGED <<resp, old_rt, timeout, old_to, b, ndigits, total_len,
                   hdrShort, nwrites, lastLen, qreply,
                   predrained>>
    /\ steps' = IF pc' \in {"done", "postenter"}
                THEN Log(Log(steps, "payload"), TermTag(read_termination'))
                ELSE Log(steps, "payload")
    /\ UNCHANGED auxVars

(* self._drain_input(100): entry *)
PostDrainEnter ==
    /\ pc = "postenter"
    /\ old_to' = timeout
    /\ timeout' = DrainTimeout(PostDrainMs)
    /\ pc' = "postdrain"
    /\ UNCHANGED <<resp, stream, read_termination, old_rt, b, ndigits, total_len,
                   payload, remaining, status, ret, faulted, hdrShort, nreads,
                   nwrites, lastLen, qreply,
                   predrained>>
    /\ UNCHANGED steps
    /\ UNCHANGED auxVars

(* self._drain_input(100): one pass of the loop; leaving it restores the     *)
(* timeout, and the call returns bytes(payload)                              *)
PostDrainRead ==
    /\ pc = "postdrain"
    /\ \E o \in ReadRawOutcomes :
         LET chunk == Take(stream, o.n) IN
         \/ /\ o.kind = "data" /\ ~DrainStops(chunk)
            /\ stream' = Drop(stream, o.n)
            /\ lastLen' = o.n
            /\ UNCHANGED <<pc, timeout, faulted, status, ret>>
         \/ /\ o.kind # "data" \/ DrainStops(chunk)
            /\ stream' = Drop(stream, o.n)
            /\ timeout' = DrainRestore
            /\ faulted' = (faulted \/ o.kind = "err")
            /\ status' = "ok"
            /\ ret' = payload
            /\ pc' = "done"
            /\ UNCHANGED lastLen
    /\ UNCHANGED <<resp, read_termination, old_rt, old_to, b, ndigits, total_len,
                   payload, remaining, hdrShort, nreads, nwrites, qreply,
                   predrained>>
    /\ steps' = Log(steps, "postdrain")
    /\ UNCHANGED auxVars

(* The next, independent query on the session: inst.query(":TRIG:STATE?") *)
NextQuery ==
    /\ pc = "done"
    /\ qreply' = QueryLine(stream \o QueryReply, read_termination)
    /\ stream' = Drop(stream \o QueryReply,
                      Len(QueryLine(stream \o QueryReply, read_termination)))
    /\ pc' = "queried"
    /\ UNCHANGED <<resp, read_termination, old_rt, timeout, old_to, b, ndigits,
                   total_len, payload, remaining, status, ret, faulted, hdrShort,
                   nreads, nwrites, lastLen,
                   predrained>>
    /\ UNCHANGED steps
    /\ UNCHANGED auxVars

Next ==
    \/ PreDrainEnter
    \/ PreDrainRead
    \/ SetBinary
    \/ WriteCmd
    \/ ReadMarker
    \/ ReadFallback
    \/ ReadNd
    \/ ReadLen
    \/ ReadPayload
    \/ PostDrainEnter
    \/ PostDrainRead
    \/ NextQuery

Spec == Init /\ [][Next]_vars

(* The call runs on one thread that is never suspended for ever *)
FairSpec == Init /\ [][Next]_vars /\ WF_vars(Next)

----------------------------------------------------------------------------
(* export_screenshot_png: one raw read of the answer to ":DISP:DATA? PNG",  *)
(* sliced by the header it starts with.                                     *)

(* bytes.strip() as int() applies it: ASCII whitespace off both ends *)
IsSpace(c) == c \in {LF, CR}
RECURSIVE LStrip(_)
LStrip(s) == IF Len(s) > 0 /\ IsSpace(s[1]) THEN LStrip(Drop(s, 1)) ELSE s
RECURSIVE RStrip(_)
RStrip(s) == IF Len(s) > 0 /\ IsSpace(s[Len(s)]) THEN RStrip(Take(s, Len(s) - 1)) ELSE s
Strip(s) == RStrip(LStrip(s))

(* int(bytes): a value when the stripped text is a digit string, else ValueError *)
PyIntOk(s) == IsDigits(Strip(s))
PyInt(s) == ToInt(Strip(s))

(* data[i:j] with Python's clamping; i and j count from 0 *)
Slice(s, i, j) == SubSeq(s, i + 1, Min(j, Len(s)))

(* The class has no method _drain_after_block: the def sits inside the body
   of _drain_input, so the attribute lookup on self fails *)
HasDrainAfterBlock == FALSE

(* The slice export_screenshot_png writes for a reply that parsed *)
ShotPayload(data) ==
    IF Len(data) > 0 /\ Slice(data, 0, 1) = <<HASH>>
    THEN LET nd == PyInt(Slice(data, 1, 2))
             length == PyInt(Slice(data, 2, 2 + nd))
             start == 2 + nd
         IN  Slice(data, start, start + length)
    ELSE data

(* The header of the reply parses: both int() calls succeed *)
ShotParses(data) ==
    (Len(data) > 0 /\ Slice(data, 0, 1) = <<HASH>>) =>
        /\ PyIntOk(Slice(data, 1, 2))
        /\ PyIntOk(Slice(data, 2, 2 + PyInt(Slice(data, 1, 2))))

ShotInit ==
    /\ pc = "shot"
    /\ resp \in Responses
    /\ stream = <<>>
    /\ BlockRest
    /\ ShotIdle /\ GuiIdle /\ WaveIdle /\ MeasIdle

(* self.inst.write(":DISP:DATA? PNG") *)
ShotWrite ==
    /\ pc = "shot"
    /\ \/ /\ stream' = stream \o Bytes(resp)
          /\ nwrites' = nwrites + 1
          /\ pc' = "shot_read"
          /\ UNCHANGED <<status, faulted>>
       \/ /\ faulted' = TRUE
          /\ status' = "IOError"
          /\ pc' = "shot_done"
          /\ UNCHANGED <<stream, nwrites>>
    /\ UNCHANGED <<resp, read_termination, old_rt, timeout, old_to, b, ndigits,
                   total_len, payload, remaining, ret, hdrShort, nreads,
                   lastLen, qreply, predrained, steps>>
    /\ UNCHANGED auxVars

(* data = self.inst.read_raw(); the header is parsed and the slice written *)
ShotRead ==
    /\ pc = "shot_read"
    /\ \E o \in ReadRawOutcomes :
         LET data == Take(stream, o.n) IN
         \/ /\ o.kind = "data" /\ ShotParses(data)
            /\ stream' = Drop(stream, o.n)
            /\ file' = ShotPayload(data)
            /\ pc' = "shot_drain"
            /\ UNCHANGED <<status, faulted>>
         \/ /\ o.kind = "data" /\ ~ShotParses(data)
            /\ stream' = Drop(stream, o.n)
            /\ status' = "ValueError"
            /\ pc' = "shot_done"
            /\ UNCHANGED <<file, faulted>>
         \/ /\ o.kind # "data"
            /\ status' = (IF o.kind = "tmo" THEN "Timeout" ELSE "IOError")
            /\ faulted' = (o.kind = "err")
            /\ pc' = "shot_done"
            /\ UNCHANGED <<file, stream>>
    /\ UNCHANGED <<resp, read_termination, old_rt, timeout, old_to, b, ndigits,
                   total_len, payload, remaining, ret, hdrShort, nreads, nwrites,
                   lastLen, qreply, predrained, steps>>
    /\ UNCHANGED <<guiVars, waveVars, measVars>>

(* try: self._drain_after_block() except Exception: pass *)
ShotDrain ==
    /\ pc = "shot_drain"
    /\ stream' = (IF HasDrainAfterBlock THEN <<>> ELSE stream)
    /\ status' = "ok"
    /\ pc' = "shot_done"
    /\ UNCHANGED <<resp, read_termination, old_rt, timeout, old_to, b, ndigits,
                   total_len, payload, remaining, ret, faulted, hdrShort, nreads,
                   nwrites, lastLen, qreply, predrained, steps>>
    /\ UNCHANGED auxVars

ShotNext ==
    \/ ShotWrite
    \/ ShotRead
    \/ ShotDrain

SpecShot == ShotInit /\ [][ShotNext]_vars

----------------------------------------------------------------------------
(* The GUI: the Tk main loop runs the handlers of the buttons one at a time *)
(* on thread 0; "Save ALL Channels CSV" hands export_all_channels_csv to a  *)
(* new daemon thread and returns.  All of them use the one session.         *)

NumChannels == 4

(* The session operations of export_all_channels_csv, in order: "write" is
   inst.write, "query" is inst.query or inst.query_binary_values *)
ExportPrelude == <<"write", "write", "query", "write", "write">>
ChannelOps == <<"query", "write", "query", "query", "query">>
RECURSIVE Repeat(_, _)
Repeat(o, k) == IF k = 0 THEN <<>> ELSE o \o Repeat(o, k - 1)
ExportOps == ExportPrelude \o Repeat(ChannelOps, NumChannels)

GuiInit == BlockIdle /\ ShotIdle /\ GuiIdle /\ WaveIdle /\ MeasIdle

(* App.export_all_waveforms_csv: threading.Thread(target=_worker).start() *)
StartExport ==
    /\ tpc[UiThread] = "idle"
    /\ \E w \in Workers :
         /\ tpc[w] \in {"off", "done"}
         /\ \A v \in Workers : v < w => tpc[v] \notin {"off", "done"}
         /\ tpc' = [tpc EXCEPT ![w] = "idle"]
         /\ wstep' = [wstep EXCEPT ![w] = 0]
    /\ UNCHANGED lastWriter
    /\ UNCHANGED <<blockVars, shotVars, waveVars, measVars>>

(* The worker: an inst.write of export_all_channels_csv *)
WorkerWrite(w) ==
    /\ tpc[w] = "idle"
    /\ ExportOps[wstep[w] + 1] = "write"
    /\ wstep' = [wstep EXCEPT ![w] = wstep[w] + 1]
    /\ lastWriter' = w
    /\ UNCHANGED tpc
    /\ UNCHANGED <<blockVars, shotVars, waveVars, measVars>>

(* The worker: inst.query writes the command, then waits for the answer *)
WorkerQuerySend(w) ==
    /\ tpc[w] = "idle"
    /\ ExportOps[wstep[w] + 1] = "query"
    /\ tpc' = [tpc EXCEPT ![w] = "waiting"]
    /\ lastWriter' = w
    /\ UNCHANGED wstep
    /\ UNCHANGED <<blockVars, shotVars, waveVars, measVars>>

(* The worker: the read of inst.query returns; after the last one the thread ends *)
WorkerQueryRecv(w) ==
    /\ tpc[w] = "waiting"
    /\ wstep' = [wstep EXCEPT ![w] = wstep[w] + 1]
    /\ tpc' = [tpc EXCEPT ![w] = IF wstep[w] + 1 = Len(ExportOps)
                                 THEN "done" ELSE "idle"]
    /\ UNCHANGED lastWriter
    /\ UNCHANGED <<blockVars, shotVars, waveVars, measVars>>

(* A handler on the main loop writes a command: single, run_scope, stop_scope *)
UiWrite ==
    /\ tpc[UiThread] = "idle"
    /\ lastWriter' = UiThread
    /\ UNCHANGED <<tpc, wstep>>
    /\ UNCHANGED <<blockVars, shotVars, waveVars, measVars>>

(* A handler on the main loop starts a query: apply_timebase, apply_channel,
   apply_trigger, meas_read_row, export_screenshot *)
UiQuerySend ==
    /\ tpc[UiThread] = "idle"
    /\ tpc' = [tpc EXCEPT ![UiThread] = "waiting"]
    /\ lastWriter' = UiThread
    /\ UNCHANGED wstep
    /\ UNCHANGED <<blockVars, shotVars, waveVars, measVars>>

(* The read of that query returns *)
UiQueryRecv ==
    /\ tpc[UiThread] = "waiting"
    /\ tpc' = [tpc EXCEPT ![UiThread] = "idle"]
    /\ UNCHANGED <<wstep, lastWriter>>
    /\ UNCHANGED <<blockVars, shotVars, waveVars, measVars>>

GuiNext ==
    \/ StartExport
    \/ \E w \in Workers : WorkerWrite(w)
    \/ \E w \in Workers : WorkerQuerySend(w)
    \/ \E w \in Workers : WorkerQueryRecv(w)
    \/ UiWrite
    \/ UiQuerySend
    \/ UiQueryRecv

SpecGui == GuiInit /\ [][GuiNext]_vars

----------------------------------------------------------------------------
(* The waveform readers: _read_waveform_binary and export_all_channels_csv  *)
(* of scpi.py, and _read_waveform_ascii of the legacy ScopeControlGui.py.   *)
(* A preamble is the sequence of its comma-separated fields, each field the *)
(* number float() parses from it; times count in microseconds and volts in  *)
(* hundredths, so that 1e-6 is 1 and 0.04 is 4.  Raw samples are bytes.     *)

MaxSamples == 3     \* longest raw sample array

MinFields == 10
YUnit == 100        \* a y_increment of 1.0, in hundredths
ScaleWindow == 100
ScaleVotes == 80

(* "BYTE,0,1000,1,1e-6,0,0,0.04,0,128" and a preamble with six distinct
   coefficients *)
PreExample == <<0, 0, 1000, 1, 1, 0, 0, 4, 0, 128>>
PreShifted == <<0, 0, 1000, 1, 2, -5, 1, 3, 7, 128>>
ValidPreambles == {PreExample, PreShifted}
ShortPreambles == {<<0>>, Take(PreExample, MinFields - 1)}
Preambles == ValidPreambles \cup ShortPreambles

RampByte(i) == <<0, 128, 255>>[((i - 1) % 3) + 1]
Ramp(n) == [i \in 1..n |-> RampByte(i)]
Flat(n) == [i \in 1..n |-> 128]
Raws == UNION { {Ramp(n), Flat(n)} : n \in 0..MaxSamples }

(* pre[k] of the Python list *)
Field(pre, k) == pre[k + 1]

XIncr(pre) == Field(pre, 4)
(* Variant: the time origin is read from the reference field *)
XOrigFromRef(pre) == Field(pre, 6)
XOrig(pre) == Field(pre, 5)
XRef(pre) == Field(pre, 6)
(* Variant: the voltage step is read from the time step field *)
YIncrFromX(pre) == Field(pre, 4)
YIncr(pre) == Field(pre, 7)
(* Variant: the voltage offset is dropped *)
YOrigDropped(pre) == 0
YOrig(pre) == Field(pre, 8)
YRef(pre) == Field(pre, 9)

(* Variant: a preamble of nine fields passes the length test *)
ShortPreambleNine(pre) == Len(pre) < MinFields - 1
(* len(pre) < 10 *)
ShortPreamble(pre) == Len(pre) < MinFields

(* pre[9] exists; reading it from a shorter list raises IndexError *)
HasFields(pre) == Len(pre) > 9

(* Variant: an empty payload is decoded like any other *)
EmptyPayloadNever(p) == FALSE
(* not payload *)
EmptyPayload(p) == Len(p) = 0

(* Variant: the decode keeps the offset of the decode before it *)
DecodeVoltsCarry(raw, pre) ==
    [i \in 1..Len(raw) |->
        (raw[i] - YRef(pre)) * YIncr(pre)
        + (IF y_vals = <<>> THEN YOrig(pre) ELSE y_vals[1])]
(* [(b - y_ref) * y_incr + y_orig for b in payload] *)
DecodeVolts(raw, pre) ==
    [i \in 1..Len(raw) |-> (raw[i] - YRef(pre)) * YIncr(pre) + YOrig(pre)]

(* Variant: the time vector has one entry per point the preamble announces *)
DecodeTimesPoints(n, pre) ==
    [i \in 1..Field(pre, 2) |-> XOrig(pre) + XIncr(pre) * ((i - 1) - XRef(pre))]
(* [x_orig + x_incr * (i - x_ref) for i in range(n)] *)
DecodeTimes(n, pre) ==
    [i \in 1..n |-> XOrig(pre) + XIncr(pre) * ((i - 1) - XRef(pre))]

(* need_scale of _read_waveform_ascii; the model's values are whole numbers,
   so each of the first 100 counts as integer-like *)
NeedScale(vals, pre) ==
    /\ Len(vals) > 0
    /\ Min(Len(vals), ScaleWindow) > ScaleVotes
    /\ (YIncr(pre) # YUnit \/ YOrig(pre) # 0 \/ YRef(pre) # 0)

(* tmode.startswith("WIND") *)
IsZoom(mode) == mode = "WIND"

(* Variant: the mode is written back only when the reader returns normally *)
RestoresOnReturnOnly(kind) == kind = "ok"
(* The finally clause runs however the try block is left *)
FinallyRestores(kind) == TRUE

(* Variant: a channel that fails ends the loop *)
SkipToEnd(c) == NumChannels + 1
(* continue: the loop goes on with the next channel *)
SkipTo(c) == c + 1

(* min(len(col) for col in data_cols.values()) *)
MinLen(cols) ==
    CHOOSE m \in { Len(cols[c]) : c \in DOMAIN cols } :
        \A c \in DOMAIN cols : m <= Len(cols[c])

WaveInit ==
    /\ BlockIdle /\ ShotIdle /\ GuiIdle /\ MeasIdle
    /\ wpath \in {"rwb", "csv", "ascii"}
    /\ wpc = (IF wpath = "ascii" THEN "setup" ELSE "timebase")
    /\ wstatus = "none"
    /\ ch = 0
    /\ cur_pre = <<>>
    /\ cur_raw = <<>>
    /\ requested = FALSE
    /\ time_axis = <<>>
    /\ axis_ch = 0
    /\ data_cols = NoCols
    /\ t_vals = <<>>
    /\ y_vals = <<>>
    /\ shortSeen = {}
    /\ tb \in {"MAIN", "WIND"}
    /\ tb0 = tb
    /\ tbcmds = <<>>
    /\ tbFault = FALSE
    /\ restore_zoom = FALSE
    /\ rows = <<>>

(* The reader ends with an exception of the given kind, or returns ("ok") *)
WaveRaise(kind) ==
    /\ wstatus' = kind
    /\ wpc' = "done"

(* inst.write(":TIMebase:MODE <mode>"): the instrument takes the mode, or the
   write fails and the mode stays *)
WriteMode(mode, ok) ==
    /\ tbcmds' = Append(tbcmds, mode)
    /\ tb' = (IF ok THEN mode ELSE tb)
    /\ tbFault' = (tbFault \/ ~ok)

NoModeWrite == UNCHANGED <<tb, tbcmds, tbFault>>

(* The finally clause of _read_waveform_binary and export_all_channels_csv *)
WaveExit(kind) ==
    /\ WaveRaise(kind)
    /\ IF restore_zoom /\ FinallyRestores(kind)
       THEN \E ok \in BOOLEAN : WriteMode("WIND", ok)
       ELSE NoModeWrite

(* tmode = query(":TIMebase:MODE?"), "MAIN" when the query fails; a zoomed
   timebase is switched to MAIN; keep tells whether the restore stays armed
   when that write fails *)
ForceMain(keep) ==
    \/ /\ tbFault' = TRUE
       /\ restore_zoom' = FALSE
       /\ UNCHANGED <<tb, tbcmds>>
    \/ /\ ~IsZoom(tb)
       /\ restore_zoom' = FALSE
       /\ NoModeWrite
    \/ /\ IsZoom(tb)
       /\ \E ok \in BOOLEAN :
            /\ WriteMode("MAIN", ok)
            /\ restore_zoom' = (ok \/ keep)

(* _read_waveform_binary: the timebase is read and forced to MAIN *)
RwbTimebase ==
    /\ wpath = "rwb" /\ wpc = "timebase"
    /\ ForceMain(FALSE)
    /\ wpc' = "setup"
    /\ UNCHANGED <<wpath, wstatus, ch, cur_pre, cur_raw, requested, time_axis,
                   axis_ch, data_cols, t_vals, y_vals, shortSeen, tb0, rows>>
    /\ UNCHANGED <<blockVars, shotVars, guiVars, measVars>>

(* _read_waveform_binary up to the preamble query: source, format, points *)
RwbSetup ==
    /\ wpath = "rwb" /\ wpc = "setup"
    /\ \/ wpc' = "pre" /\ UNCHANGED wstatus /\ NoModeWrite
       \/ WaveExit("IOError")
    /\ UNCHANGED <<wpath, ch, cur_pre, cur_raw, requested, time_axis, axis_ch,
                   data_cols, t_vals, y_vals, shortSeen, tb0, restore_zoom, rows>>
    /\ UNCHANGED <<blockVars, shotVars, guiVars, measVars>>

(* pre = query(":WAVeform:PREamble?"); if len(pre) < 10: raise RuntimeError *)
RwbPreamble ==
    /\ wpath = "rwb" /\ wpc = "pre"
    /\ \E pre \in Preambles :
         /\ cur_pre' = pre
         /\ IF ShortPreamble(pre) THEN WaveExit("ShapeError")
            ELSE IF ~HasFields(pre) THEN WaveExit("IndexError")
            ELSE wpc' = "data" /\ UNCHANGED wstatus /\ NoModeWrite
    /\ UNCHANGED <<wpath, ch, cur_raw, requested, time_axis, axis_ch, data_cols,
                   t_vals, y_vals, shortSeen, tb0, restore_zoom, rows>>
    /\ UNCHANGED <<blockVars, shotVars, guiVars, measVars>>

(* payload = query_binary_values(":WAVeform:DATA?") *)
RwbData ==
    /\ wpath = "rwb" /\ wpc = "data"
    /\ requested' = TRUE
    /\ \/ \E raw \in Raws :
            /\ cur_raw' = raw
            /\ wpc' = "decode"
            /\ UNCHANGED wstatus
            /\ NoModeWrite
       \/ WaveExit("IOError") /\ UNCHANGED cur_raw
    /\ UNCHANGED <<wpath, ch, cur_pre, time_axis, axis_ch, data_cols, t_vals,
                   y_vals, shortSeen, tb0, restore_zoom, rows>>
    /\ UNCHANGED <<blockVars, shotVars, guiVars, measVars>>

(* self._drain_after_block(); the empty test; the decode; return *)
RwbDecode ==
    /\ wpath = "rwb" /\ wpc = "decode"
    /\ IF ~HasDrainAfterBlock
       THEN WaveExit("AttributeError") /\ UNCHANGED <<t_vals, y_vals>>
       ELSE IF EmptyPayload(cur_raw)
       THEN WaveExit("NoData") /\ UNCHANGED <<t_vals, y_vals>>
       ELSE /\ y_vals' = DecodeVolts(cur_raw, cur_pre)
            /\ t_vals' = DecodeTimes(Len(cur_raw), cur_pre)
            /\ WaveExit("ok")
    /\ UNCHANGED <<wpath, ch, cur_pre, cur_raw, requested, time_axis, axis_ch,
                   data_cols, shortSeen, tb0, restore_zoom, rows>>
    /\ UNCHANGED <<blockVars, shotVars, guiVars, measVars>>

(* _read_waveform_ascii: source and format writes *)
AsciiSetup ==
    /\ wpath = "ascii" /\ wpc = "setup"
    /\ \/ wpc' = "pre" /\ UNCHANGED wstatus
       \/ WaveRaise("IOError")
    /\ UNCHANGED <<wpath, ch, cur_pre, cur_raw, requested, time_axis, axis_ch,
                   data_cols, t_vals, y_vals, shortSeen, tbVars, rows>>
    /\ UNCHANGED <<blockVars, shotVars, guiVars, measVars>>

(* pre = query(":WAV:PRE?"); if len(pre) < 10: raise RuntimeError *)
AsciiPreamble ==
    /\ wpath = "ascii" /\ wpc = "pre"
    /\ \E pre \in Preambles :
         /\ cur_pre' = pre
         /\ IF ShortPreamble(pre) THEN WaveRaise("ShapeError")
            ELSE IF ~HasFields(pre) THEN WaveRaise("IndexError")
            ELSE wpc' = "data" /\ UNCHANGED wstatus
    /\ UNCHANGED <<wpath, ch, cur_raw, requested, time_axis, axis_ch, data_cols,
                   t_vals, y_vals, shortSeen, tbVars, rows>>
    /\ UNCHANGED <<blockVars, shotVars, guiVars, measVars>>

(* write(":WAV:DATA?"); read_raw(); parse; need_scale; time vector; return *)
AsciiData ==
    /\ wpath = "ascii" /\ wpc = "data"
    /\ requested' = TRUE
    /\ \/ \E vals \in Raws :
            /\ cur_raw' = vals
            /\ y_vals' = (IF NeedScale(vals, cur_pre)
                          THEN DecodeVolts(vals, cur_pre) ELSE vals)
            /\ t_vals' = DecodeTimes(Len(vals), cur_pre)
            /\ WaveRaise("ok")
       \/ WaveRaise("IOError") /\ UNCHANGED <<cur_raw, y_vals, t_vals>>
    /\ UNCHANGED <<wpath, ch, cur_pre, time_axis, axis_ch, data_cols, shortSeen,
                   tbVars, rows>>
    /\ UNCHANGED <<blockVars, shotVars, guiVars, measVars>>

(* export_all_channels_csv: clear, *CLS, *WAI; the timebase is read and
   forced to MAIN *)
CsvTimebase ==
    /\ wpath = "csv" /\ wpc = "timebase"
    /\ ForceMain(TRUE)
    /\ wpc' = "setup"
    /\ UNCHANGED <<wpath, wstatus, ch, cur_pre, cur_raw, requested, time_axis,
                   axis_ch, data_cols, t_vals, y_vals, shortSeen, tb0, rows>>
    /\ UNCHANGED <<blockVars, shotVars, guiVars, measVars>>

(* export_all_channels_csv up to the channel loop: format, points mode *)
CsvSetup ==
    /\ wpath = "csv" /\ wpc = "setup"
    /\ \/ wpc' = "chan" /\ ch' = 1 /\ UNCHANGED wstatus /\ NoModeWrite
       \/ WaveExit("IOError") /\ UNCHANGED ch
    /\ UNCHANGED <<wpath, cur_pre, cur_raw, requested, time_axis, axis_ch,
                   data_cols, t_vals, y_vals, shortSeen, tb0, restore_zoom, rows>>
    /\ UNCHANGED <<blockVars, shotVars, guiVars, measVars>>

(* One channel up to its preamble: the channel is skipped when it is not
   displayed, has no points, a query raises, or the preamble is short *)
CsvPreamble ==
    /\ wpath = "csv" /\ wpc = "chan" /\ ch <= NumChannels
    /\ \/ /\ ch' = SkipTo(ch)
          /\ UNCHANGED <<wpc, cur_pre, requested, shortSeen>>
       \/ \E pre \in Preambles :
            /\ cur_pre' = pre
            /\ requested' = FALSE
            /\ IF ShortPreamble(pre)
               THEN /\ shortSeen' = shortSeen \cup {ch}
                    /\ ch' = SkipTo(ch)
                    /\ UNCHANGED wpc
               ELSE IF ~HasFields(pre)
               THEN ch' = SkipTo(ch) /\ UNCHANGED <<wpc, shortSeen>>
               ELSE wpc' = "data" /\ UNCHANGED <<ch, shortSeen>>
    /\ UNCHANGED <<wpath, wstatus, cur_raw, time_axis, axis_ch, data_cols,
                   t_vals, y_vals, tbVars, rows>>
    /\ UNCHANGED <<blockVars, shotVars, guiVars, measVars>>

(* The channel's transfer and decode; the first decoded channel builds
   time_axis; an empty payload or a failed transfer skips the channel *)
CsvData ==
    /\ wpath = "csv" /\ wpc = "data"
    /\ requested' = TRUE
    /\ wpc' = "chan"
    /\ \/ \E raw \in Raws :
            /\ cur_raw' = raw
            /\ IF EmptyPayload(raw)
               THEN /\ ch' = SkipTo(ch)
                    /\ UNCHANGED <<y_vals, time_axis, axis_ch, data_cols>>
               ELSE /\ ch' = ch + 1
                    /\ y_vals' = DecodeVolts(raw, cur_pre)
                    /\ IF axis_ch = 0
                       THEN /\ time_axis' = DecodeTimes(Len(raw), cur_pre)
                            /\ axis_ch' = ch
                       ELSE UNCHANGED <<time_axis, axis_ch>>
                    /\ data_cols' = [c \in DOMAIN data_cols \cup {ch} |->
                                       IF c = ch THEN DecodeVolts(raw, cur_pre)
                                       ELSE data_cols[c]]
       \/ /\ ch' = SkipTo(ch)
          /\ UNCHANGED <<cur_raw, y_vals, time_axis, axis_ch, data_cols>>
    /\ UNCHANGED <<wpath, wstatus, cur_pre, t_vals, shortSeen, tbVars, rows>>
    /\ UNCHANGED <<blockVars, shotVars, guiVars, measVars>>

(* One row of the file: the time and, per channel, its value or a blank *)
Row(axis, cols, i) ==
    [t |-> axis[i],
     v |-> [c \in 1..NumChannels |->
              IF c \in DOMAIN cols THEN <<cols[c][i]>> ELSE <<>>]]

(* After the loop: no column is an error; else the columns are trimmed to
   the shortest and the rows are written *)
CsvFinish ==
    /\ wpath = "csv" /\ wpc = "chan" /\ ch > NumChannels
    /\ IF DOMAIN data_cols = {} \/ axis_ch = 0
       THEN WaveExit("NoWaveform") /\ UNCHANGED <<time_axis, data_cols, rows>>
       ELSE LET min_len == MinLen(data_cols) IN
            /\ time_axis' = Take(time_axis, Min(min_len, Len(time_axis)))
            /\ data_cols' = [c \in DOMAIN data_cols |->
                               Take(data_cols[c], Min(min_len, Len(data_cols[c])))]
            /\ rows' = [i \in 1..min_len |-> Row(time_axis', data_cols', i)]
            /\ WaveExit("ok")
    /\ UNCHANGED <<wpath, ch, cur_pre, cur_raw, requested, axis_ch, t_vals,
                   y_vals, shortSeen, tb0, restore_zoom>>
    /\ UNCHANGED <<blockVars, shotVars, guiVars, measVars>>

WaveNext ==
    \/ RwbTimebase
    \/ RwbSetup
    \/ RwbPreamble
    \/ RwbData
    \/ RwbDecode
    \/ AsciiSetup
    \/ AsciiPreamble
    \/ AsciiData
    \/ CsvTimebase
    \/ CsvSetup
    \/ CsvPreamble
    \/ CsvData
    \/ CsvFinish

SpecWave == WaveInit /\ [][WaveNext]_vars

----------------------------------------------------------------------------
(* The measurement handlers of the GUI.  Each runs to its end on the main   *)
(* loop; a scope command that raises ends the handler in its except clause. *)
(* A command that raises has not reached the instrument.                    *)

MeasInit == BlockIdle /\ ShotIdle /\ GuiIdle /\ WaveIdle /\ MeasIdle

(* The rows a handler re-installs before the command of row f raises;
   f = NumRows when none raises *)
Before(rs, f) == { j \in rs : j < f }

(* App.meas_add_row(idx) *)
MeasAddRow(idx) ==
    /\ \/ /\ installed' = installed \cup {idx}
          /\ meas_active' = [meas_active EXCEPT ![idx] = TRUE]
          /\ last_msg' = "added"
       \/ /\ last_msg' = "add_failed"
          /\ UNCHANGED <<installed, meas_active>>
    /\ UNCHANGED val_var
    /\ UNCHANGED <<blockVars, shotVars, guiVars, waveVars>>

(* App.meas_read_row(idx) *)
MeasReadRow(idx) ==
    /\ \/ /\ val_var' = [val_var EXCEPT ![idx] = "value"]
          /\ last_msg' = "read"
       \/ /\ last_msg' = "read_failed"
          /\ UNCHANGED val_var
    /\ UNCHANGED <<installed, meas_active>>
    /\ UNCHANGED <<blockVars, shotVars, guiVars, waveVars>>

(* App.meas_clear_row(idx): clear all, then re-install the other active rows *)
MeasClearRow(idx) ==
    \/ /\ last_msg' = "clear_failed"
       /\ UNCHANGED <<installed, meas_active, val_var>>
       /\ UNCHANGED <<blockVars, shotVars, guiVars, waveVars>>
    \/ LET others == { j \in Rows : j # idx /\ meas_active[j] } IN
       \E f \in others \cup {NumRows} :
          /\ meas_active' = [meas_active EXCEPT ![idx] = FALSE]
          /\ installed' = Before(others, f)
          /\ IF f = NumRows
             THEN /\ val_var' = [val_var EXCEPT ![idx] = "dash"]
                  /\ last_msg' = "cleared"
             ELSE /\ last_msg' = "clear_failed"
                  /\ UNCHANGED val_var
          /\ UNCHANGED <<blockVars, shotVars, guiVars, waveVars>>

(* App.meas_clear_all *)
MeasClearAll ==
    /\ \/ /\ installed' = {}
          /\ meas_active' = [i \in Rows |-> FALSE]
          /\ val_var' = [i \in Rows |-> "dash"]
          /\ last_msg' = "cleared_all"
       \/ /\ last_msg' = "clear_all_failed"
          /\ UNCHANGED <<installed, meas_active, val_var>>
    /\ UNCHANGED <<blockVars, shotVars, guiVars, waveVars>>

(* App.on_my_default: setup commands, clear all, the four rows of the plan in
   order, then single *)
MyDefault ==
    /\ \/ /\ last_msg' = "default_failed"
          /\ UNCHANGED <<installed, meas_active, val_var>>
       \/ \E f \in Rows \cup {NumRows} :
             /\ installed' = Before(Rows, f)
             /\ meas_active' = [i \in Rows |-> IF i < f THEN TRUE ELSE meas_active[i]]
             /\ val_var' = [i \in Rows |-> IF i < f THEN "dash" ELSE val_var[i]]
             /\ last_msg' \in (IF f = NumRows THEN {"default", "default_failed"}
                               ELSE {"default_failed"})
    /\ UNCHANGED <<blockVars, shotVars, guiVars, waveVars>>

MeasNext ==
    \/ \E idx \in Rows : MeasAddRow(idx)
    \/ \E idx \in Rows : MeasReadRow(idx)
    \/ \E idx \in Rows : MeasClearRow(idx)
    \/ MeasClearAll
    \/ MyDefault

SpecMeas == MeasInit /\ [][MeasNext]_vars

----------------------------------------------------------------------------
(* Properties of the block reader *)

CallEnded == pc \in {"done", "queried"}

(* C1: for a complete block whose header reads came back whole, on a session
   that did not fail, the call returns exactly the declared payload bytes in
   order, however the payload reads were split. *)
C1_ExactPayload ==
    (CallEnded /\ resp \in CompleteBlocks /\ ~faulted /\ hdrShort = "no")
        => (status = "ok" /\ ret = resp.body /\ Len(ret) = total_len)

C1_Witness ==
    /\ pc = "done" /\ status = "ok" /\ ~faulted
    /\ resp \in CompleteBlocks /\ Len(resp.body) >= 3
    /\ nreads = Len(resp.body) /\ ret = resp.body

(* C2: once the try block has been left, by return, by a framing or timeout
   error or by a failed write or read, read_termination is again the value
   it had when the call started. *)
C2_TerminatorRestored ==
    pc \in {"postenter", "postdrain", "done", "queried"}
        => read_termination = ConnectRt

C2_Witness ==
    /\ pc = "done" /\ status = "IOError" /\ nwrites = 1
    /\ old_rt = ConnectRt /\ read_termination = ConnectRt

(* C3: a header whose digit-count byte, or one of whose length bytes, is not
   a decimal digit ends the call with the framing error, which is not the
   timeout error, and nothing is returned. *)
BadCount(h) ==
    Len(h) >= 2 /\ h[1] = HASH /\ ~IsDigits(<<h[2]>>)
BadLength(h) ==
    /\ Len(h) >= 3 /\ h[1] = HASH /\ IsDigits(<<h[2]>>)
    /\ \E i \in 3..Min(Len(h), 2 + (h[2] - ZERO)) : ~IsDigits(<<h[i]>>)

C3_FramingError ==
    (CallEnded /\ ~faulted /\ (BadCount(resp.hdr) \/ BadLength(resp.hdr)))
        => (status = "FramingError" /\ status # EmptyChunkError /\ ret = <<>>)

C3_Witness ==
    /\ pc = "done" /\ ~faulted /\ status = "FramingError"
    /\ resp.hdr = <<HASH, LETTER, Digit(5), Digit(0), Digit(0)>>

(* C4: when the payload stops before the declared length, so that a payload
   read comes back with nothing, the call ends with the timeout error and
   returns no partial payload. *)
C4_ShortPayloadTimeout ==
    (CallEnded /\ resp \in ShortBlocks /\ ~faulted /\ hdrShort = "no")
        => (status = "Timeout" /\ ret = <<>>)

C4_Witness ==
    /\ pc = "done" /\ ~faulted /\ status = "Timeout" /\ ret = <<>>
    /\ resp \in ShortBlocks /\ Len(resp.body) >= 1 /\ payload = resp.body

(* C5: a header read that came back short because no more bytes arrived is
   reported as the timeout error, not as the framing error. *)
C5_StarvedHeaderIsTimeout ==
    (CallEnded /\ ~faulted /\ hdrShort = "starved") => status = "Timeout"


(* C6: the call always ends, and the payload loop issues at most total_len
   reads: every pass either lowers remaining or raises. *)
C6_Terminates ==
    /\ [](nreads <= total_len)
    /\ <>(pc = "done")

C6_Witness ==
    /\ pc = "done" /\ status = "Timeout" /\ ~faulted
    /\ total_len >= 2 /\ nreads = total_len

(* C7: after the call has returned a block of the declared length that was
   followed by LF or CR LF, on a session that did not fail, the next query
   reads its own reply from its first byte on. *)
C7_TerminatorDrained ==
    (/\ pc = "queried" /\ status = "ok" /\ ~faulted
     /\ resp \in CompleteBlocks /\ resp.trail \in Terminators
     /\ Len(ret) = total_len)
        => (Len(qreply) > 0 /\ qreply[1] = QueryReply[1])

C7_Witness ==
    /\ pc = "queried" /\ status = "ok" /\ ~faulted
    /\ resp \in CompleteBlocks /\ resp.trail = <<CR, LF>>
    /\ Len(resp.body) >= 1 /\ qreply = QueryReply

(* C8: once a read of the post-block drain has handed back more than 2 bytes,
   the drain takes no further byte from the stream. *)
C8_DrainStopsAfterLongChunk ==
    [][(pc = "postdrain" /\ lastLen > 2) => stream' = stream]_vars

(* C9: when the first byte read is not the marker, the call does not raise:
   it returns that byte followed by what one further raw read handed back. *)
C9_FallbackReturns ==
    (CallEnded /\ ~faulted /\ b # <<>> /\ b # <<HASH>>)
        => (status = "fallback" /\ Len(ret) >= 1 /\ ret[1] = b[1])

(* C10: every header, fallback and payload read is made with terminator
   recognition off, and a payload holding LF comes back whole and unchanged. *)
HasLF(s) == \E i \in 1..Len(s) : s[i] = LF

C10_BinarySafe ==
    /\ pc \in {"marker", "fallback", "nd", "len", "payload"}
           => read_termination = TermNone
    /\ (CallEnded /\ status = "ok" /\ HasLF(resp.body)) => ret = resp.body

C10_Witness ==
    /\ pc = "done" /\ status = "ok"
    /\ resp.body = <<LF, LETTER, LF>> /\ ret = resp.body /\ nreads >= 2


(* C11: when the pre-drain was not cut short by a transport error, the bytes
   a prior exchange left are gone before the command is written, so the
   first header read starts at the first byte of the answer to the command;
   a pre-drain that times out is not a failure of the call. *)
C11_PreDrainCleans ==
    /\ (pc = "marker" /\ ~faulted) => stream = Bytes(resp)
    /\ pc \in {"predrain", "setterm", "write"} => (status = "none" /\ nwrites = 0)
    /\ (pc = "write" /\ ~faulted) => stream = <<>>

C11_Witness ==
    /\ pc = "marker" /\ ~faulted /\ predrained = 2
    /\ stream = Bytes(resp) /\ Len(resp.hdr) >= 3

(* C12: the session operations of one call occur in the order pre-drain,
   terminator off, write, marker read, digit-count read, length read,
   payload reads, terminator on, post-drain; a failure or the fallback cuts
   the order short and still turns the terminator on; no read of the answer
   precedes the write and the post-drain follows the restore. *)
FullOrder ==
    <<"predrain", "term_off", "write", "marker", "count", "length", "payload",
      "term_on", "postdrain">>
NoPayloadOrder ==
    <<"predrain", "term_off", "write", "marker", "count", "length",
      "term_on", "postdrain">>
FallbackOrder ==
    <<"predrain", "term_off", "write", "marker", "fallback", "term_on">>
Prefixes(o) == { Take(o, k) : k \in 0..Len(o) }
CutShort == { Take(FullOrder, k) \o <<"term_on">> : k \in 3..7 }

C12_StepOrder ==
    /\ steps \in Prefixes(FullOrder) \cup Prefixes(NoPayloadOrder)
                   \cup Prefixes(FallbackOrder) \cup CutShort
    /\ (CallEnded /\ status = "ok")
          => steps = (IF total_len > 0 THEN FullOrder ELSE NoPayloadOrder)
    /\ (CallEnded /\ status # "ok")
          => steps \in CutShort \cup {FallbackOrder}

C12_Witness ==
    pc = "done" /\ status = "ok" /\ total_len >= 2 /\ nreads >= 2 /\ steps = FullOrder

(* C13: the command is written at most once, and once the call has failed
   it ends: no further write, header read or any other session operation of
   the call follows. *)
C13_SingleAttempt ==
    /\ [](nwrites <= 1)
    /\ [](status \in {"FramingError", "Timeout", "IOError"} => CallEnded)
    /\ [][status # "none" =>
            (nwrites' = nwrites /\ steps' = steps /\ b' = b
             /\ ndigits' = ndigits /\ total_len' = total_len)]_vars

C13_Witness ==
    pc = "queried" /\ status = "FramingError" /\ nwrites = 1 /\ ~faulted

----------------------------------------------------------------------------
(* Properties of the GUI threads and of the screenshot export *)

(* C14: at most one command/response cycle is in flight on the session: while
   a thread is between writing a query and finishing reading its answer, no
   other thread has written a command to the session, so the waiting thread
   is still the latest writer. *)
C14_OneCycleInFlight ==
    \A t \in Threads : tpc[t] = "waiting" => lastWriter = t

(* C15: for a complete block, on a session that did not fail, the screenshot
   export ends normally and the file holds exactly the declared payload
   bytes, whatever they are and however the reply was split across reads. *)
C15_ScreenshotExact ==
    (pc = "shot_done" /\ ~faulted /\ resp \in CompleteBlocks) =>
        (status = "ok" /\ file = resp.body)

----------------------------------------------------------------------------
(* Properties of the waveform readers *)

(* The export has just decoded channel ch - 1: cur_pre and cur_raw are the
   preamble and the raw bytes of that transfer *)
JustDecoded == wpath = "csv" /\ wpc = "chan" /\ (ch - 1) \in DOMAIN data_cols

(* The export has just built time_axis, from the transfer of channel ch - 1 *)
JustBuiltAxis == wpath = "csv" /\ wpc = "chan" /\ axis_ch > 0 /\ axis_ch = ch - 1

(* _read_waveform_binary returned its triple *)
RwbReturned == wpath = "rwb" /\ wpc = "done" /\ wstatus = "ok"

(* C16: every decoded voltage is (raw[i] - y_reference) * y_increment +
   y_origin with the three coefficients from fields 7, 8 and 9 of the
   preamble of the transfer; with the preamble BYTE,0,1000,1,1e-6,0,0,0.04,0,128
   raw byte 128 decodes to 0.0 and raw byte 0 to -5.12 (in hundredths: -512). *)
C16_VoltageDecode ==
    /\ JustDecoded =>
         /\ y_vals = data_cols[ch - 1]
         /\ \A i \in DOMAIN y_vals :
              y_vals[i] = (cur_raw[i] - cur_pre[10]) * cur_pre[8] + cur_pre[9]
         /\ cur_pre = PreExample =>
              \A i \in DOMAIN y_vals :
                 /\ cur_raw[i] = 128 => y_vals[i] = 0
                 /\ cur_raw[i] = 0 => y_vals[i] = -512
    /\ RwbReturned =>
         \A i \in DOMAIN y_vals :
            y_vals[i] = (cur_raw[i] - cur_pre[10]) * cur_pre[8] + cur_pre[9]

C16_Witness ==
    /\ JustDecoded /\ cur_pre = PreExample /\ Len(cur_raw) >= 2
    /\ cur_raw[1] = 0 /\ data_cols[ch - 1][1] = -512
    /\ cur_raw[2] = 128 /\ data_cols[ch - 1][2] = 0

(* C17: every time value a transfer decodes is (i - x_reference) *
   x_increment + x_origin, i counting from 0, with the three coefficients
   from fields 4, 5 and 6 of the preamble captured for that transfer.  The
   export decodes times in the transfer of its first decoded channel only. *)
C17_TimeDecode ==
    /\ JustBuiltAxis =>
         \A i \in DOMAIN time_axis :
            time_axis[i] = ((i - 1) - cur_pre[7]) * cur_pre[5] + cur_pre[6]
    /\ (wpath \in {"rwb", "ascii"} /\ wpc = "done" /\ wstatus = "ok") =>
         \A i \in DOMAIN t_vals :
            t_vals[i] = ((i - 1) - cur_pre[7]) * cur_pre[5] + cur_pre[6]

C17_Witness ==
    /\ JustBuiltAxis /\ cur_pre = PreShifted /\ Len(time_axis) >= 2
    /\ time_axis[1] = -7 /\ time_axis[2] = -5

(* C18: a decoded transfer has as many voltages as raw bytes, and the time
   vector built for it has that many entries too. *)
C18_SameLength ==
    /\ JustDecoded =>
         (Len(y_vals) = Len(cur_raw) /\ Len(data_cols[ch - 1]) = Len(cur_raw))
    /\ JustBuiltAxis => Len(time_axis) = Len(cur_raw)
    /\ (wpath \in {"rwb", "ascii"} /\ wpc = "done" /\ wstatus = "ok") =>
         (Len(t_vals) = Len(cur_raw) /\ Len(y_vals) = Len(cur_raw))

C18_Witness ==
    /\ JustBuiltAxis /\ JustDecoded /\ Len(cur_raw) = 3
    /\ Len(time_axis) = 3 /\ Len(data_cols[ch - 1]) = 3

(* C19, as first stated: a zero-length raw sample array transferred after a
   valid preamble makes _read_waveform_binary return normally, with two
   empty sequences. *)
C19_EmptyDecodes ==
    (wpath = "rwb" /\ wpc = "done" /\ requested /\ wstatus # "IOError"
     /\ Len(cur_pre) >= MinFields /\ cur_raw = <<>>) =>
        (wstatus = "ok" /\ t_vals = <<>> /\ y_vals = <<>>)

(* C19, amended: a zero-length raw sample array is never decoded into a
   waveform.  _read_waveform_binary ends with an error and returns no
   sequences; export_all_channels_csv skips the channel, so no column and no
   time axis is ever empty. *)
C19_EmptyPayloadRejected ==
    /\ (wpath = "rwb" /\ wpc = "done" /\ requested /\ cur_raw = <<>>) =>
         (wstatus \notin {"ok", "none"} /\ t_vals = <<>> /\ y_vals = <<>>)
    /\ wpath = "csv" =>
         /\ \A c \in DOMAIN data_cols : Len(data_cols[c]) > 0
         /\ axis_ch > 0 => Len(time_axis) > 0
         /\ (wpc = "chan" /\ requested /\ cur_raw = <<>>) =>
              (ch - 1) \notin DOMAIN data_cols

C19_Witness ==
    /\ wpath = "rwb" /\ wpc = "done" /\ wstatus = "AttributeError"
    /\ Len(cur_pre) >= MinFields /\ cur_raw = <<>> /\ requested

(* Some preamble read by the reader had fewer than 10 fields *)
SawShortPreamble ==
    \/ (cur_pre # <<>> /\ Len(cur_pre) < MinFields)
    \/ shortSeen # {}

(* C20, as first stated: in every waveform path a preamble of fewer than 10
   fields ends the read with the shape error. *)
C20_ShortPreambleSurfaced ==
    (wpc = "done" /\ SawShortPreamble) => wstatus = "ShapeError"

(* C20, amended: after a preamble of fewer than 10 fields no path requests
   or decodes sample data with it.  _read_waveform_binary and
   _read_waveform_ascii end at once with the shape error; the export raises
   nothing for it, records no column for that channel and goes on. *)
C20_ShortPreambleRejected ==
    /\ (wpath \in {"rwb", "ascii"} /\ SawShortPreamble) =>
         /\ wpc = "done" /\ wstatus = "ShapeError"
         /\ ~requested /\ t_vals = <<>> /\ y_vals = <<>>
    /\ (wpath = "csv" /\ cur_pre # <<>> /\ Len(cur_pre) < MinFields) =>
         (~requested /\ shortSeen # {})
    /\ wpath = "csv" =>
         /\ wstatus \notin {"ShapeError", "IndexError"}
         /\ \A c \in shortSeen : c < ch /\ c \notin DOMAIN data_cols

C20_Witness ==
    /\ wpath = "csv" /\ wpc = "done" /\ wstatus = "ok"
    /\ shortSeen # {} /\ DOMAIN data_cols # {}

----------------------------------------------------------------------------
(* Further properties of the block reader *)

(* The header the instrument sent starts with the marker and the digit 0 *)
ZeroCount(h) == Len(h) >= 2 /\ h[1] = HASH /\ h[2] = ZERO

(* C24: a header whose digit-count byte is 0 is never accepted as a block:
   on a session that did not fail the call ends with the framing error and
   returns no payload. *)
C24_ZeroCountRejected ==
    /\ (CallEnded /\ ~faulted /\ ZeroCount(resp.hdr)) =>
         (status = "FramingError" /\ ret = <<>> /\ payload = <<>>)
    /\ (ZeroCount(resp.hdr) /\ ~faulted) => pc \notin {"payload", "postenter", "postdrain"}

C24_Witness ==
    /\ pc = "done" /\ ~faulted /\ ZeroCount(resp.hdr) /\ resp.trail = <<LF>>
    /\ status = "FramingError" /\ ndigits = 0 /\ nwrites = 1

(* C26: in every state of the call 0 <= remaining <= L and
   len(payload) + remaining = L, L being the declared length once the header
   is parsed; hence when the loop is left normally len(payload) = L and
   remaining = 0. *)
C26_LoopInvariant ==
    /\ remaining >= 0 /\ remaining <= total_len
    /\ Len(payload) + remaining = total_len
    /\ (pc = "payload" /\ ~faulted /\ resp \in CompleteBlocks \cup ShortBlocks) =>
         total_len = ToInt(Drop(resp.hdr, 2))
    /\ pc \in {"postenter", "postdrain"} =>
         (remaining = 0 /\ Len(payload) = total_len)

C26_Witness ==
    /\ pc = "payload" /\ total_len >= 3 /\ nreads >= 2
    /\ Len(payload) >= 2 /\ remaining >= 1

(* C27: _drain_input leaves the session timeout as it found it on every way
   out of its loop (empty read, timeout, any other failure of the read): the
   drain's own timeout is in force only inside the loop, and everywhere else,
   in particular once the call has ended, the timeout is the configured one. *)
C27_TimeoutRestored ==
    /\ pc \in {"predrain", "postdrain"} =>
         (old_to = ConnectTimeout
          /\ timeout = (IF pc = "predrain" THEN PreDrainMs ELSE PostDrainMs))
    /\ pc \notin {"predrain", "postdrain"} => timeout = ConnectTimeout

C27_Witness ==
    /\ pc = "done" /\ status = "ok" /\ predrained = 2 /\ lastLen >= 1
    /\ timeout = ConnectTimeout

----------------------------------------------------------------------------
(* Further properties of the waveform readers *)

(* C21: for every preamble, a raw byte equal to y_reference decodes to
   exactly y_origin, whatever y_increment is. *)
C21_ReferenceDecodesToOrigin ==
    /\ JustDecoded =>
         \A i \in DOMAIN y_vals :
            cur_raw[i] = cur_pre[10] =>
               (y_vals[i] = cur_pre[9] /\ data_cols[ch - 1][i] = cur_pre[9])
    /\ RwbReturned =>
         \A i \in DOMAIN y_vals : cur_raw[i] = cur_pre[10] => y_vals[i] = cur_pre[9]

C21_Witness ==
    /\ JustDecoded /\ cur_pre = PreShifted /\ Len(cur_raw) >= 1
    /\ cur_raw[1] = 128 /\ data_cols[ch - 1][1] = 7

(* The voltages and times the formulas give for the transfer at hand *)
OwnVolts ==
    [i \in 1..Len(cur_raw) |-> (cur_raw[i] - cur_pre[10]) * cur_pre[8] + cur_pre[9]]
OwnTimes ==
    [i \in 1..Len(cur_raw) |-> ((i - 1) - cur_pre[7]) * cur_pre[5] + cur_pre[6]]

(* C22, as first stated: the time sequence that goes with a decoded channel
   is a function of that channel's own raw bytes and coefficients, whatever
   was decoded before it. *)
C22_TimesFromOwnTransfer ==
    JustDecoded =>
        \A i \in DOMAIN time_axis \cap DOMAIN OwnTimes : time_axis[i] = OwnTimes[i]

(* C22, amended: the voltages of a decode are a function of its raw bytes
   and coefficients alone, whatever was decoded before; so are the times
   where a transfer decodes them.  The export decodes times only in the
   transfer of its first decoded channel and keeps that time axis through
   every later channel. *)
C22_DecodeStateless ==
    /\ [](JustDecoded => (y_vals = OwnVolts /\ data_cols[ch - 1] = OwnVolts))
    /\ [](JustBuiltAxis => time_axis = OwnTimes)
    /\ []((wpath = "ascii" /\ wpc = "done" /\ wstatus = "ok") => t_vals = OwnTimes)
    /\ [][(wpath = "csv" /\ axis_ch # 0 /\ wpc' # "done") =>
             (time_axis' = time_axis /\ axis_ch' = axis_ch)]_vars

C22_Witness ==
    /\ JustDecoded /\ axis_ch > 0 /\ axis_ch < ch - 1
    /\ cur_pre = PreShifted /\ time_axis[1] = 0 /\ y_vals = OwnVolts

(* C25: in _read_waveform_binary, once the transfer has completed with a
   valid preamble and a non-empty payload, the drain step runs to completion
   and the call returns the decoded times and voltages. *)
C25_DrainThenReturn ==
    (wpath = "rwb" /\ wpc = "done" /\ Len(cur_pre) >= MinFields /\ cur_raw # <<>>) =>
        (wstatus = "ok" /\ y_vals = OwnVolts /\ t_vals = OwnTimes)

(* The reader is between its timebase step and its end *)
InTransfer ==
    wpath \in {"rwb", "csv"} /\ wpc \in {"setup", "pre", "data", "decode", "chan"}

(* C28: when the timebase is not zoomed at the start, no timebase-mode command
   is written at all.  When it is zoomed, it is MAIN for the transfer and the
   switch back to WIND is written however the reader ends, errors included:
   the mode is WIND again at the end unless a timebase query or write itself
   failed, and it can be left at MAIN only by a failed write of WIND. *)
C28_TimebaseRestored ==
    /\ (wpath \in {"rwb", "csv"} /\ tb0 # "WIND") => (tbcmds = <<>> /\ tb = tb0)
    /\ (InTransfer /\ tb0 = "WIND" /\ ~tbFault) =>
         (tb = "MAIN" /\ tbcmds = <<"MAIN">>)
    /\ (wpath \in {"rwb", "csv"} /\ wpc = "done" /\ tb0 = "WIND" /\ ~tbFault) =>
         (tb = "WIND" /\ tbcmds = <<"MAIN", "WIND">>)
    /\ (wpath \in {"rwb", "csv"} /\ wpc = "done" /\ tb0 = "WIND" /\ tb # "WIND") =>
         tbcmds = <<"MAIN", "WIND">>

C28_Witness ==
    /\ wpath = "rwb" /\ wpc = "done" /\ wstatus = "ShapeError"
    /\ tb0 = "WIND" /\ tb = "WIND" /\ tbcmds = <<"MAIN", "WIND">> /\ ~tbFault

(* The export is inside its channel loop *)
InLoop == wpath = "csv" /\ wpc \in {"chan", "data"}

(* C29: a channel that fails (query error, short preamble, zero points,
   empty payload) never ends the export: inside the loop no error is raised
   and the loop visits every channel in turn.  After the loop the export
   raises 'No waveform data retrieved' exactly when no channel produced data;
   otherwise the time axis and every column are cut to the length of the
   shortest column and one row per index of that length is written. *)
C29_ChannelsIndependent ==
    /\ [](InLoop => (wstatus = "none" /\ rows = <<>>))
    /\ [][InLoop =>
            /\ ch' \in {ch, ch + 1}
            /\ wpc' = "done" => ch = NumChannels + 1]_vars
    /\ []((wpath = "csv" /\ wpc = "done" /\ ch >= 1) =>
            /\ wstatus = "NoWaveform" <=> DOMAIN data_cols = {}
            /\ wstatus = "ok" <=> DOMAIN data_cols # {}
            /\ \A c \in DOMAIN data_cols :
                  Len(data_cols[c]) = Len(time_axis) /\ Len(data_cols[c]) = Len(rows)
            /\ \A i \in DOMAIN rows :
                  /\ rows[i].t = time_axis[i]
                  /\ \A c \in 1..NumChannels :
                        rows[i].v[c] = (IF c \in DOMAIN data_cols
                                        THEN <<data_cols[c][i]>> ELSE <<>>))
    /\ [][(InLoop /\ wpc' = "done" /\ DOMAIN data_cols # {}) =>
            \E m \in { Len(data_cols[c]) : c \in DOMAIN data_cols } :
               /\ \A c \in DOMAIN data_cols : m <= Len(data_cols[c])
               /\ m > 0
               /\ time_axis' = Take(time_axis, m)
               /\ data_cols' = [c \in DOMAIN data_cols |-> Take(data_cols[c], m)]
               /\ Len(rows') = m]_vars

C29_Witness ==
    /\ wpath = "csv" /\ wpc = "done" /\ wstatus = "ok"
    /\ 1 \in shortSeen /\ DOMAIN data_cols = {2, 4}
    /\ axis_ch = 2 /\ Len(rows) = 1 /\ Len(y_vals) = 1

(* C23: in the legacy ASCII path the returned values are the scaled ones
   exactly when most of the first min(100, count) parsed values are within
   1e-6 of an integer and the preamble scaling is non-trivial, for every
   count.  The model's values are whole numbers, so the first condition
   holds for every non-empty sequence. *)
C23_ScaledWhenMostIntegers ==
    (wpath = "ascii" /\ wpc = "done" /\ wstatus = "ok" /\ cur_raw # <<>>) =>
        y_vals = (IF cur_pre[8] # YUnit \/ cur_pre[9] # 0 \/ cur_pre[10] # 0
                  THEN OwnVolts ELSE cur_raw)

----------------------------------------------------------------------------
(* Properties of the measurement rows *)

(* C30: after any sequence of Add row, Clear row, Clear All and My Default,
   failed scope commands included, meas_active[i] is true exactly when the
   measurement of row i is installed on the instrument. *)
C30_ActiveMatchesInstrument ==
    \A i \in Rows : meas_active[i] <=> i \in installed

====
